---- MODULE Spec2Model ----
(***************************************************************************)
(* Model of scripts/arxml_validator.py: the rule-driven ARXML validator.   *)
(*                                                                         *)
(* Python strings are modelled as sequences of one-character strings, so   *)
(* that replace, strip, split, lower, endswith and the substring test are  *)
(* computed character by character as the script computes them.  A row of  *)
(* the result list is the Python list the script appends: a sequence of    *)
(* cells, seven cells for a parse failure and eight otherwise.             *)
(***************************************************************************)
EXTENDS Integers, Sequences, FiniteSets, TLC

\* ------------------------------------------------------------------ bounds
MaxRules == 2
MaxFiles == 2

\* ------------------------------------------------------- string primitives
\* Python's None where a cell or an element text has no value.
NoneCell == <<"None">>

Whitespace == {" ", "\t", "\n", "\r"}

UpperLetters == <<"A","B","C","D","E","F","G","H","I","J","K","L","M",
                  "N","O","P","Q","R","S","T","U","V","W","X","Y","Z">>
LowerLetters == <<"a","b","c","d","e","f","g","h","i","j","k","l","m",
                  "n","o","p","q","r","s","t","u","v","w","x","y","z">>

\* str.startswith / str.endswith
StartsWith(s, p) == Len(p) <= Len(s) /\ SubSeq(s, 1, Len(p)) = p
EndsWith(s, p) == Len(p) <= Len(s) /\ SubSeq(s, Len(s) - Len(p) + 1, Len(s)) = p

\* Python's  sub in s
Contains(s, sub) ==
    \E i \in 1..(Len(s) - Len(sub) + 1) : SubSeq(s, i, i + Len(sub) - 1) = sub

\* str.replace(old, new): non-overlapping occurrences, left to right
RECURSIVE Replace(_, _, _)
Replace(s, old, new) ==
    IF Len(s) < Len(old) THEN s
    ELSE IF StartsWith(s, old)
         THEN new \o Replace(SubSeq(s, Len(old) + 1, Len(s)), old, new)
         ELSE <<Head(s)>> \o Replace(Tail(s), old, new)

\* str.lower on one character, then on a string
LowerChar(c) ==
    IF \E i \in DOMAIN UpperLetters : UpperLetters[i] = c
    THEN LowerLetters[CHOOSE i \in DOMAIN UpperLetters : UpperLetters[i] = c]
    ELSE c
Lower(s) == [i \in DOMAIN s |-> LowerChar(s[i])]

\* str.strip()
RECURSIVE LStrip(_)
LStrip(s) == IF s # <<>> /\ Head(s) \in Whitespace THEN LStrip(Tail(s)) ELSE s
RECURSIVE RStrip(_)
RStrip(s) ==
    IF s # <<>> /\ s[Len(s)] \in Whitespace
    THEN RStrip(SubSeq(s, 1, Len(s) - 1)) ELSE s
Strip(s) == RStrip(LStrip(s))

\* str.split(","): the pieces between the commas, empty pieces included
RECURSIVE SplitComma(_, _)
SplitComma(s, cur) ==
    IF s = <<>> THEN <<cur>>
    ELSE IF Head(s) = "," THEN <<cur>> \o SplitComma(Tail(s), <<>>)
    ELSE SplitComma(Tail(s), Append(cur, Head(s)))

\* dict.get(key, default)
Get(d, key, default) == IF key \in DOMAIN d THEN d[key] ELSE default

\* ------------------------------------------------------ status and markers
PASS == <<"P","A","S","S">>
FAIL == <<"F","A","I","L">>
SKIP == <<"S","K","I","P">>
PARSE_ERROR == <<"P","A","R","S","E","_","E","R","R","O","R">>
INVALID_XPATH == <<"I","N","V","A","L","I","D","_","X","P","A","T","H">>
UNKNOWN == <<"U","N","K","N","O","W","N">>
ArxmlExt == <<".","a","r","x","m","l">>
LocalNameMarker == <<"l","o","c","a","l","-","n","a","m","e","(",")">>

\* --------------------------------------------------------- library: re
\* re.match restricted to the patterns the rule pool uses: an optional "^",
\* then literal characters, then an optional "$".  A pattern whose first item
\* is a quantifier does not compile (re.error: nothing to repeat).
Quantifiers == {"*", "+", "?"}
ReBody(p) == IF p # <<>> /\ Head(p) = "^" THEN Tail(p) ELSE p
ReCompileError(p) == ReBody(p) # <<>> /\ Head(ReBody(p)) \in Quantifiers
ReEndAnchored(p) == ReBody(p) # <<>> /\ ReBody(p)[Len(ReBody(p))] = "$"
ReLiteral(p) ==
    IF ReEndAnchored(p) THEN SubSeq(ReBody(p), 1, Len(ReBody(p)) - 1) ELSE ReBody(p)
ReMatch(p, s) ==
    /\ StartsWith(s, ReLiteral(p))
    /\ ReEndAnchored(p) =>
          SubSeq(s, Len(ReLiteral(p)) + 1, Len(s)) \in {<<>>, <<"\n">>}

\* --------------------------------------------------- evaluate_condition
\* "True" or "False" as returned, "raise" when the call raises.
PyBool(b) == IF b THEN "True" ELSE "False"

\* a variant of evaluate_condition: an unknown condition gives True
evaluate_condition_UnknownTrue(actual, expected, condition) ==
    IF condition = "EQUALS" THEN PyBool(actual = expected)
    ELSE IF condition = "NOT_EQUALS" THEN PyBool(actual # expected)
    ELSE IF condition = "EXISTS" THEN PyBool(actual \notin {NoneCell, <<>>})
    ELSE IF condition = "IN"
         THEN LET parts == SplitComma(expected, <<>>)
              IN  PyBool(\E i \in DOMAIN parts : Strip(parts[i]) = actual)
    ELSE IF condition = "REGEX"
         THEN IF ReCompileError(expected) THEN "raise"
              ELSE PyBool(ReMatch(expected,
                                  IF actual \in {NoneCell, <<>>} THEN <<>> ELSE actual))
    ELSE "True"

\* a variant of evaluate_condition: EXISTS tests actual against expected
evaluate_condition_ExistsUsesExpected(actual, expected, condition) ==
    IF condition = "EQUALS" THEN PyBool(actual = expected)
    ELSE IF condition = "NOT_EQUALS" THEN PyBool(actual # expected)
    ELSE IF condition = "EXISTS" THEN PyBool(actual \notin {NoneCell, expected})
    ELSE IF condition = "IN"
         THEN LET parts == SplitComma(expected, <<>>)
              IN  PyBool(\E i \in DOMAIN parts : Strip(parts[i]) = actual)
    ELSE IF condition = "REGEX"
         THEN IF ReCompileError(expected) THEN "raise"
              ELSE PyBool(ReMatch(expected,
                                  IF actual \in {NoneCell, <<>>} THEN <<>> ELSE actual))
    ELSE "False"

\* a variant of evaluate_condition: IN does not strip the elements
evaluate_condition_InNoStrip(actual, expected, condition) ==
    IF condition = "EQUALS" THEN PyBool(actual = expected)
    ELSE IF condition = "NOT_EQUALS" THEN PyBool(actual # expected)
    ELSE IF condition = "EXISTS" THEN PyBool(actual \notin {NoneCell, <<>>})
    ELSE IF condition = "IN"
         THEN LET parts == SplitComma(expected, <<>>)
              IN  PyBool(\E i \in DOMAIN parts : parts[i] = actual)
    ELSE IF condition = "REGEX"
         THEN IF ReCompileError(expected) THEN "raise"
              ELSE PyBool(ReMatch(expected,
                                  IF actual \in {NoneCell, <<>>} THEN <<>> ELSE actual))
    ELSE "False"

evaluate_condition(actual, expected, condition) ==
    IF condition = "EQUALS" THEN PyBool(actual = expected)
    ELSE IF condition = "NOT_EQUALS" THEN PyBool(actual # expected)
    ELSE IF condition = "EXISTS" THEN PyBool(actual \notin {NoneCell, <<>>})
    ELSE IF condition = "IN"
         THEN LET parts == SplitComma(expected, <<>>)
              IN  PyBool(\E i \in DOMAIN parts : Strip(parts[i]) = actual)
    ELSE IF condition = "REGEX"
         THEN IF ReCompileError(expected) THEN "raise"
              ELSE PyBool(ReMatch(expected,
                                  IF actual \in {NoneCell, <<>>} THEN <<>> ELSE actual))
    ELSE "False"

\* ------------------------------------------------------ normalize_xpath
normalize_xpath(xpath) ==
    IF Contains(xpath, LocalNameMarker) THEN xpath
    ELSE Replace(Replace(xpath, <<"/","/">>,
                         <<"/","/","*","[">> \o LocalNameMarker \o <<"=","'">>),
                 <<"/">>,
                 <<"'","]","[">> \o LocalNameMarker \o <<"=","'">>)
         \o <<"'","]">>

\* ------------------------------------------------- library: lxml xpath
\* root.xpath restricted to the expressions the rule pool yields.  The one
\* well-formed shape is  //*[local-name()='N']  with N a name of letters: it
\* selects, in document order, every element whose local name is N.  Every
\* other expression the pool yields is rejected by the engine (XPathEvalError).
DescendantByName == <<"/","/","*","[">> \o LocalNameMarker \o <<"=","'">>
IsName(n) ==
    /\ n # <<>>
    /\ \A i \in DOMAIN n :
          \E k \in DOMAIN UpperLetters : n[i] \in {UpperLetters[k], LowerLetters[k]}
QueryName(xp) == SubSeq(xp, Len(DescendantByName) + 1, Len(xp) - 2)
IsLocalNameQuery(xp) ==
    /\ StartsWith(xp, DescendantByName)
    /\ EndsWith(xp, <<"'","]">>)
    /\ Len(xp) >= Len(DescendantByName) + 2
    /\ IsName(QueryName(xp))
\* [raised |-> TRUE] when the call raises, else the list of matched elements.
XPathQuery(tree, xp) ==
    IF IsLocalNameQuery(xp)
    THEN [raised |-> FALSE,
          elements |-> SelectSeq(tree, LAMBDA e : e.tag = QueryName(xp))]
    ELSE [raised |-> TRUE, elements |-> <<>>]

\* ------------------------------------------------------------ the inputs
\* rules.json: the rules the run may load.  A rule is a JSON object; a key it
\* does not carry is absent from the record (dict.get supplies the default).
XpA == DescendantByName \o <<"A","'","]">>
XpB == DescendantByName \o <<"B","'","]">>

RulePool ==
    { [rule_id |-> <<"1">>, description |-> <<"d">>, xpath |-> XpA,
       condition |-> "EQUALS", expected |-> <<"1">>],
      [rule_id |-> <<"2">>, xpath |-> XpA, condition |-> "REGEX",
       expected |-> <<"*">>, mandatory |-> FALSE],
      [rule_id |-> <<"3">>, xpath |-> <<"/","A">>, condition |-> "EXISTS",
       mandatory |-> TRUE],
      [rule_id |-> <<"4">>, xpath |-> XpB, condition |-> "IN",
       expected |-> <<"1",","," ","2">>, mandatory |-> FALSE],
      [xpath |-> XpB, condition |-> "REGEX", expected |-> <<"^","2","$">>,
       mandatory |-> TRUE] }

\* The files os.walk meets under ARXML_DIR.  dir is the directory relative to
\* the scan root (empty for the root itself); wellformed tells whether
\* etree.parse accepts the file, err is the message it raises otherwise, and
\* tree lists the elements of the document in document order, the root first.
El(tag, text) == [tag |-> tag, text |-> text]
FilePool ==
    { [dir |-> <<>>, name |-> <<"b",".","A","R","X","M","L">>, wellformed |-> TRUE,
       err |-> <<>>,
       tree |-> <<El(<<"R">>, NoneCell), El(<<"A">>, <<" ","1","\n">>),
                  El(<<"A">>, <<"2">>), El(<<"B">>, NoneCell)>>],
      [dir |-> <<>>, name |-> <<"c",".","a","r","x","m","l">>, wellformed |-> FALSE,
       err |-> <<"E">>, tree |-> <<>>],
      [dir |-> <<>>, name |-> <<"d","a","r","x","m","l">>, wellformed |-> FALSE,
       err |-> <<"E">>, tree |-> <<>>],
      [dir |-> <<"s">>, name |-> <<"a",".","A","r","X","m","l">>, wellformed |-> TRUE,
       err |-> <<>>, tree |-> <<El(<<"R">>, <<"2">>)>>] }

SeqsUpTo(S, n) == UNION { [1..k -> S] : k \in 0..n }
Distinct(q) == \A i, j \in DOMAIN q : i # j => q[i] # q[j]

\* os.walk(ARXML_DIR) is top-down: it yields the files of a directory together,
\* in the order os.scandir lists them (no order is promised and the script
\* sorts nothing), and a directory before the directories below it.
IsPrefix(a, b) == Len(a) <= Len(b) /\ SubSeq(b, 1, Len(a)) = a
TopDown(q) ==
    /\ \A i, j \in DOMAIN q :
          (q[i].dir # q[j].dir /\ IsPrefix(q[j].dir, q[i].dir)) => j < i
    /\ \A i, j, k \in DOMAIN q :
          (i < j /\ j < k /\ q[i].dir = q[k].dir) => q[j].dir = q[i].dir
WalkOrders(S) == { q \in [1..Cardinality(S) -> S] : Distinct(q) /\ TopDown(q) }

\* ------------------------------------------------------------- the state
VARIABLES
    rules,      \* the loaded rule list
    files,      \* the (directory, file) pairs in the order os.walk yields them
    pc,         \* where the script is
    fi,         \* index in files of the file the walk is at
    ri,         \* index in rules of the rule the rule loop is at (0 outside it)
    ei,         \* index in elements of the element the inner loop is at (0 outside it)
    results,    \* the result list
    prov,       \* history: for each row, the <<file, rule, element>> it was appended at
    report,     \* the DataFrame written to OUTPUT_FILE
    fault,      \* the exception that ended the run, "" if none
    call        \* a single call of normalize_xpath or evaluate_condition on its
                \* own: its arguments and what it returns ([fn |-> "none"]
                \* while the script runs)

vars == <<rules, files, pc, fi, ri, ei, results, prov, report, fault, call>>

Columns == <<"ARXML Path", "ARXML File", "Rule ID", "Description",
             "XPath", "Expected", "Actual", "Status">>
ColIndex(name) == CHOOSE i \in DOMAIN Columns : Columns[i] = name

\* os.path.relpath(os.path.join(root_dir, file), ARXML_DIR)
rel_path(f) == IF f.dir = <<>> THEN f.name ELSE f.dir \o <<"/">> \o f.name

\* a variant of IsArxml: the name is not lowered before the test
IsArxml_CaseSensitive(f) == EndsWith(f.name, ArxmlExt)

\* file.lower().endswith(".arxml")
IsArxml(f) == EndsWith(Lower(f.name), ArxmlExt)

\* the locals of the rule loop
rule == rules[ri]
rule_id == Get(rule, "rule_id", UNKNOWN)
desc == Get(rule, "description", <<>>)
xpath == normalize_xpath(Get(rule, "xpath", <<>>))
condition == Get(rule, "condition", "")
expected == Get(rule, "expected", <<>>)
mandatory_DefaultFalse == Get(rule, "mandatory", FALSE)
mandatory == Get(rule, "mandatory", TRUE)
root == files[fi].tree
elements == XPathQuery(root, xpath).elements

Init ==
    /\ rules \in SeqsUpTo(RulePool, MaxRules)
    /\ files \in UNION { WalkOrders(S) :
                           S \in { T \in SUBSET FilePool : Cardinality(T) <= MaxFiles } }
    /\ pc = "check_rules"
    /\ fi = 1
    /\ ri = 0
    /\ ei = 0
    /\ results = <<>>
    /\ prov = <<>>
    /\ report = [written |-> FALSE, rows |-> <<>>]
    /\ fault = ""
    /\ call = [fn |-> "none"]

\* ------------------------------------------------------------ the actions
\* a variant of AppendRow: results.insert(0, row)
AppendRow_Prepend(row) ==
    /\ results' = <<row>> \o results
    /\ prov' = <<<<fi, ri, ei>>>> \o prov

\* results.append(row), with the history of where the row was appended
AppendRow(row) ==
    /\ results' = Append(results, row)
    /\ prov' = Append(prov, <<fi, ri, ei>>)

\* `continue` of the rule loop, and the end of the rule loop after the last rule
NextRule ==
    IF ri < Len(rules)
    THEN /\ pc' = "rules"
         /\ ri' = ri + 1
         /\ ei' = 0
         /\ fi' = fi
    ELSE /\ pc' = "walk"
         /\ fi' = fi + 1
         /\ ri' = 0
         /\ ei' = 0

\* a variant of CheckRules: the test of the rule list is missing
CheckRules_NoTest ==
    /\ pc = "check_rules"
    /\ pc' = "walk"
    /\ UNCHANGED <<call, rules, files, fi, ri, ei, results, prov, report, fault>>

\* if not rules: raise SystemExit
CheckRules ==
    /\ pc = "check_rules"
    /\ IF rules = <<>>
       THEN pc' = "exit" /\ fault' = "SystemExit"
       ELSE pc' = "walk" /\ fault' = fault
    /\ UNCHANGED <<call, rules, files, fi, ri, ei, results, prov, report>>

\* a file whose name does not end with .arxml: continue
SkipFile ==
    /\ pc = "walk"
    /\ fi <= Len(files)
    /\ ~IsArxml(files[fi])
    /\ fi' = fi + 1
    /\ UNCHANGED <<call, rules, files, pc, ri, ei, results, prov, report, fault>>

\* the row appended when etree.parse raises
ParseErrorRow(f) ==
    <<rel_path(f), f.name, PARSE_ERROR, <<>>, <<>>, f.err, FAIL>>

\* a variant of ParseFail: the `continue` is missing and the rule loop runs
ParseFail_NoContinue ==
    /\ pc = "walk"
    /\ fi <= Len(files)
    /\ IsArxml(files[fi])
    /\ ~files[fi].wellformed
    /\ AppendRow(ParseErrorRow(files[fi]))
    /\ pc' = "rules"
    /\ ri' = 1
    /\ UNCHANGED <<call, rules, files, fi, ei, report, fault>>

\* etree.parse raises: one row, then continue with the next file
ParseFail ==
    /\ pc = "walk"
    /\ fi <= Len(files)
    /\ IsArxml(files[fi])
    /\ ~files[fi].wellformed
    /\ AppendRow(ParseErrorRow(files[fi]))
    /\ fi' = fi + 1
    /\ UNCHANGED <<call, rules, files, pc, ri, ei, report, fault>>

\* etree.parse succeeds: enter the rule loop (rules is not empty here)
ParseOk ==
    /\ pc = "walk"
    /\ fi <= Len(files)
    /\ IsArxml(files[fi])
    /\ files[fi].wellformed
    /\ pc' = "rules"
    /\ ri' = 1
    /\ UNCHANGED <<call, rules, files, fi, ei, results, prov, report, fault>>

\* a variant of QueryFail: `break` in place of `continue`
QueryFail_Break ==
    /\ pc = "rules"
    /\ XPathQuery(root, xpath).raised
    /\ AppendRow(<<rel_path(files[fi]), files[fi].name, rule_id, desc,
                   xpath, expected, <<>>, INVALID_XPATH>>)
    /\ pc' = "walk"
    /\ fi' = fi + 1
    /\ ri' = 0
    /\ ei' = 0
    /\ UNCHANGED <<call, rules, files, report, fault>>

\* root.xpath raises: one INVALID_XPATH row, continue
QueryFail ==
    /\ pc = "rules"
    /\ XPathQuery(root, xpath).raised
    /\ AppendRow(<<rel_path(files[fi]), files[fi].name, rule_id, desc,
                   xpath, expected, <<>>, INVALID_XPATH>>)
    /\ NextRule
    /\ UNCHANGED <<call, rules, files, report, fault>>

\* a variant of NoMatchStatus: the two outcomes exchanged
NoMatchStatus_Swapped(m) == IF m THEN SKIP ELSE FAIL

\* status of the row for a rule that matched nothing
NoMatchStatus(m) == IF m THEN FAIL ELSE SKIP

\* if not elements: one FAIL or SKIP row, continue
NoMatch ==
    /\ pc = "rules"
    /\ ~XPathQuery(root, xpath).raised
    /\ elements = <<>>
    /\ AppendRow(<<rel_path(files[fi]), files[fi].name, rule_id, desc,
                   xpath, expected, <<>>, NoMatchStatus(mandatory)>>)
    /\ NextRule
    /\ UNCHANGED <<call, rules, files, report, fault>>

\* the query matched: enter the loop over the elements
Matched ==
    /\ pc = "rules"
    /\ ~XPathQuery(root, xpath).raised
    /\ elements # <<>>
    /\ pc' = "elems"
    /\ ei' = 1
    /\ UNCHANGED <<call, rules, files, fi, ri, results, prov, report, fault>>

\* (elem.text or "").strip()
ActualOf(elem) == IF elem.text \in {NoneCell, <<>>} THEN <<>> ELSE Strip(elem.text)

\* "PASS" if evaluate_condition(...) else "FAIL"
EvalStatus(v) == IF v = "True" THEN PASS ELSE FAIL

\* one turn of the loop over the matched elements; an exception raised by
\* evaluate_condition is caught nowhere and ends the run
EvalElem ==
    /\ pc = "elems"
    /\ LET actual == ActualOf(elements[ei])
           v == evaluate_condition(actual, expected, condition)
       IN  IF v = "raise"
           THEN /\ pc' = "crashed"
                /\ fault' = "re.error"
                /\ UNCHANGED <<fi, ri, ei, results, prov>>
           ELSE /\ AppendRow(<<rel_path(files[fi]), files[fi].name, rule_id, desc,
                               xpath, expected, actual, EvalStatus(v)>>)
                /\ fault' = fault
                /\ IF ei < Len(elements)
                   THEN ei' = ei + 1 /\ UNCHANGED <<pc, fi, ri>>
                   ELSE NextRule
    /\ UNCHANGED <<call, rules, files, report>>

\* pd.DataFrame(results, columns=[...]): the rows are padded with None to the
\* length of the longest row, and the call raises ValueError when that length
\* is not the number of columns.
RowWidth(rs) == CHOOSE w \in { Len(rs[k]) : k \in DOMAIN rs } :
                    \A k \in DOMAIN rs : Len(rs[k]) <= w
DataFrameRaises(rs) == rs # <<>> /\ RowWidth(rs) # Len(Columns)
Cell(row, name) == IF ColIndex(name) <= Len(row) THEN row[ColIndex(name)] ELSE NoneCell
DataFrame(rs) ==
    [k \in DOMAIN rs |-> [c \in DOMAIN Columns |-> Cell(rs[k], Columns[c])]]

\* the end of the walk: build the frame and write the report
Report ==
    /\ pc = "walk"
    /\ fi > Len(files)
    /\ IF DataFrameRaises(results)
       THEN /\ pc' = "crashed"
            /\ fault' = "ValueError"
            /\ report' = report
       ELSE /\ pc' = "done"
            /\ fault' = fault
            /\ report' = [written |-> TRUE, rows |-> DataFrame(results)]
    /\ UNCHANGED <<call, rules, files, fi, ri, ei, results, prov>>

Next ==
    \/ CheckRules
    \/ SkipFile
    \/ ParseFail
    \/ ParseOk
    \/ QueryFail
    \/ NoMatch
    \/ Matched
    \/ EvalElem
    \/ Report

Spec == Init /\ [][Next]_vars

TypeOK ==
    /\ pc \in {"check_rules", "walk", "rules", "elems", "done", "exit", "crashed"}
    /\ fi \in 1..(Len(files) + 1)
    /\ ri \in 0..Len(rules)
    /\ Len(prov) = Len(results)
    /\ fault \in {"", "SystemExit", "re.error", "ValueError"}

\* ------------------------------------------- normalize_xpath on its own
MaxPathLen == 4

StringsUpTo(A, n) == UNION { [1..k -> A] : k \in 0..n }

\* the expressions handed to normalize_xpath: every string of at most
\* MaxPathLen characters over "/", "A", "b", and expressions that already
\* carry the marker
PathAlphabet == {"/", "A", "b"}
XPathInputs ==
    StringsUpTo(PathAlphabet, MaxPathLen)
    \cup { pre \o LocalNameMarker \o post :
              pre \in StringsUpTo(PathAlphabet, 1), post \in StringsUpTo(PathAlphabet, 1) }
    \cup {XpA}

\* the script is not running while a function is called on its own
ScriptIdle ==
    /\ rules = <<>>
    /\ files = <<>>
    /\ pc = "call"
    /\ fi = 1
    /\ ri = 0
    /\ ei = 0
    /\ results = <<>>
    /\ prov = <<>>
    /\ report = [written |-> FALSE, rows |-> <<>>]
    /\ fault = ""

InitNormalize ==
    /\ ScriptIdle
    /\ call \in { [fn |-> "normalize_xpath", arg |-> x, ret |-> NoneCell,
                   again |-> NoneCell, step |-> 0] : x \in XPathInputs }

\* ret = normalize_xpath(arg)
CallNormalize ==
    /\ call.fn = "normalize_xpath"
    /\ call.step = 0
    /\ call' = [call EXCEPT !.ret = normalize_xpath(call.arg), !.step = 1]
    /\ UNCHANGED <<rules, files, pc, fi, ri, ei, results, prov, report, fault>>

\* again = normalize_xpath(ret)
CallNormalizeAgain ==
    /\ call.fn = "normalize_xpath"
    /\ call.step = 1
    /\ call' = [call EXCEPT !.again = normalize_xpath(call.ret), !.step = 2]
    /\ UNCHANGED <<rules, files, pc, fi, ri, ei, results, prov, report, fault>>

NextNormalize ==
    \/ CallNormalize
    \/ CallNormalizeAgain

SpecNormalize == InitNormalize /\ [][NextNormalize]_vars

\* ---------------------------------------- evaluate_condition on its own
MaxExpectedLen == 3

\* the arguments handed to evaluate_condition: as expected every string of at
\* most MaxExpectedLen characters over "B", "b", "," and " ", the list of
\* scenario C, a pattern that does not compile and an anchored pattern; as
\* actual None, the empty string and a few texts; as condition the five known
\* kinds and some that are not
EvalAlphabet == {"B", "b", ",", " "}
ExpectedInputs ==
    StringsUpTo(EvalAlphabet, MaxExpectedLen)
    \cup { <<"A",","," ","B",","," ","C">>, <<"*">>, <<"^","B","$">> }
OtherExpectedInputs == { <<>>, <<"B">>, <<"*">> }
ActualInputs == { NoneCell, <<>>, <<"B">>, <<" ","B">>, <<"b">>, <<"B","b">> }
KnownConditions == {"EQUALS", "NOT_EQUALS", "EXISTS", "IN", "REGEX"}
ConditionInputs == KnownConditions \cup {"", "exists", "CONTAINS"}

InitEvaluate ==
    /\ ScriptIdle
    /\ call \in { [fn |-> "evaluate_condition", actual |-> a, expected |-> e,
                   other |-> o, condition |-> c,
                   ret |-> "", status |-> NoneCell, ret_other |-> "", step |-> 0] :
                  a \in ActualInputs, e \in ExpectedInputs,
                  o \in OtherExpectedInputs, c \in ConditionInputs }

\* ret = evaluate_condition(actual, expected, condition), and the status the
\* element loop makes of it when the call returns
CallEvaluate ==
    /\ call.fn = "evaluate_condition"
    /\ call.step = 0
    /\ LET v == evaluate_condition(call.actual, call.expected, call.condition)
       IN  call' = [call EXCEPT !.ret = v,
                                !.status = IF v = "raise" THEN NoneCell ELSE EvalStatus(v),
                                !.step = 1]
    /\ UNCHANGED <<rules, files, pc, fi, ri, ei, results, prov, report, fault>>

\* ret_other = evaluate_condition(actual, other, condition): the same call
\* with another expected value
CallEvaluateOther ==
    /\ call.fn = "evaluate_condition"
    /\ call.step = 1
    /\ call' = [call EXCEPT
                   !.ret_other = evaluate_condition(call.actual, call.other, call.condition),
                   !.step = 2]
    /\ UNCHANGED <<rules, files, pc, fi, ri, ei, results, prov, report, fault>>

NextEvaluate ==
    \/ CallEvaluate
    \/ CallEvaluateOther

SpecEvaluate == InitEvaluate /\ [][NextEvaluate]_vars

\* ------------------------------------------- the rule loop as a function
\* The rows the rule loop appends for a parsed file f, computed rule by rule
\* and element by element; the rows end where evaluate_condition raises.
RowOf(f, rl, actual, status) ==
    <<rel_path(f), f.name, Get(rl, "rule_id", UNKNOWN), Get(rl, "description", <<>>),
      normalize_xpath(Get(rl, "xpath", <<>>)), Get(rl, "expected", <<>>), actual, status>>

RECURSIVE ElemRows(_, _, _, _)
ElemRows(f, rl, els, e) ==
    IF e > Len(els) THEN [rows |-> <<>>, raised |-> FALSE]
    ELSE LET actual == ActualOf(els[e])
             v == evaluate_condition(actual, Get(rl, "expected", <<>>),
                                     Get(rl, "condition", ""))
             rest == ElemRows(f, rl, els, e + 1)
         IN  IF v = "raise" THEN [rows |-> <<>>, raised |-> TRUE]
             ELSE [rows |-> <<RowOf(f, rl, actual, EvalStatus(v))>> \o rest.rows,
                   raised |-> rest.raised]

RuleRows(f, rl) ==
    LET q == XPathQuery(f.tree, normalize_xpath(Get(rl, "xpath", <<>>)))
    IN  IF q.raised
        THEN [rows |-> <<RowOf(f, rl, <<>>, INVALID_XPATH)>>, raised |-> FALSE]
        ELSE IF q.elements = <<>>
        THEN [rows |-> <<RowOf(f, rl, <<>>,
                               NoMatchStatus(Get(rl, "mandatory", TRUE)))>>,
              raised |-> FALSE]
        ELSE ElemRows(f, rl, q.elements, 1)

RECURSIVE DocRows(_, _, _)
DocRows(f, rs, r) ==
    IF r > Len(rs) THEN <<>>
    ELSE LET x == RuleRows(f, rs[r])
         IN  IF x.raised THEN x.rows ELSE x.rows \o DocRows(f, rs, r + 1)

\* ------------------------------------------------ two runs of the script
\* The rows a whole run appends when os.walk yields the files in the order fs:
\* nothing with no rules, no row for a file the filter drops, the parse row
\* for a file etree.parse rejects, the rule-loop rows otherwise, ending where
\* evaluate_condition raises.
DocRaised(f, rs) == \E r \in DOMAIN rs : RuleRows(f, rs[r]).raised

RECURSIVE WalkRows(_, _, _)
WalkRows(fs, rs, i) ==
    IF rs = <<>> \/ i > Len(fs) THEN <<>>
    ELSE LET f == fs[i]
         IN  IF ~IsArxml(f) THEN WalkRows(fs, rs, i + 1)
             ELSE IF ~f.wellformed
             THEN <<ParseErrorRow(f)>> \o WalkRows(fs, rs, i + 1)
             ELSE IF DocRaised(f, rs) THEN DocRows(f, rs, 1)
             ELSE DocRows(f, rs, 1) \o WalkRows(fs, rs, i + 1)

\* Two runs over one filesystem state: the same set of files under ARXML_DIR
\* and the same rule list; each run gets the order its own os.walk yields.
InitWalk ==
    /\ ScriptIdle
    /\ call \in { [fn |-> "os.walk", entries |-> S, rules |-> rs,
                    first |-> <<>>, second |-> <<>>,
                    rows_first |-> <<>>, rows_second |-> <<>>, step |-> 0] :
                  S \in { T \in SUBSET FilePool : Cardinality(T) <= MaxFiles },
                  rs \in SeqsUpTo(RulePool, MaxRules) }

RunFirst ==
    /\ call.fn = "os.walk"
    /\ call.step = 0
    /\ \E q \in WalkOrders(call.entries) :
          call' = [call EXCEPT !.first = q,
                               !.rows_first = WalkRows(q, call.rules, 1),
                               !.step = 1]
    /\ UNCHANGED <<rules, files, pc, fi, ri, ei, results, prov, report, fault>>

RunSecond ==
    /\ call.fn = "os.walk"
    /\ call.step = 1
    /\ \E q \in WalkOrders(call.entries) :
          call' = [call EXCEPT !.second = q,
                               !.rows_second = WalkRows(q, call.rules, 1),
                               !.step = 2]
    /\ UNCHANGED <<rules, files, pc, fi, ri, ei, results, prov, report, fault>>

NextWalk ==
    \/ RunFirst
    \/ RunSecond

SpecWalk == InitWalk /\ [][NextWalk]_vars

\* Code-point order of the characters of the file names, and the order
\* sorted() gives two names.
CodePoints == <<".", "/">> \o UpperLetters \o LowerLetters
CodePoint(c) == CHOOSE i \in DOMAIN CodePoints : CodePoints[i] = c
RECURSIVE StrLE(_, _)
StrLE(a, b) ==
    IF a = <<>> THEN TRUE
    ELSE IF b = <<>> THEN FALSE
    ELSE IF Head(a) = Head(b) THEN StrLE(Tail(a), Tail(b))
    ELSE CodePoint(Head(a)) < CodePoint(Head(b))
SortedWalk(q) ==
    \A i, j \in DOMAIN q :
        (i < j /\ q[i].dir = q[j].dir) => StrLE(q[i].name, q[j].name)

\* ------------------------------------- request_with_retry, called on its own
\* sharepoint_svn_sync.request_with_retry: one call, with the responses the
\* server gives drawn attempt by attempt.
MaxRetriesArg == 7

Min(a, b) == IF a <= b THEN a ELSE b

\* str.isdigit and int on the text of a header
Digits == <<"0","1","2","3","4","5","6","7","8","9">>
isdigit(t) == t # <<>> /\ \A i \in DOMAIN t : \E d \in DOMAIN Digits : Digits[d] = t[i]
DigitValue(c) == (CHOOSE d \in DOMAIN Digits : Digits[d] = c) - 1
RECURSIVE int(_)
int(t) ==
    IF t = <<>> THEN 0
    ELSE int(SubSeq(t, 1, Len(t) - 1)) * 10 + DigitValue(t[Len(t)])

\* resp.status_code in (429, 503, 504)
Throttled == {429, 503, 504}
\* Response.raise_for_status raises HTTPError for a 4xx or 5xx status
raise_for_status(status) == 400 <= status /\ status < 600

\* The responses a server can give: a status and the Retry-After header,
\* NoneCell when the header is absent.  Retry-After is a number of seconds or
\* an HTTP-date (RFC 9110, 10.2.3); asks is the number of seconds the header
\* asks the client to wait, 0 when it asks for nothing.
HttpDate == <<"F","r","i",","," ","3","1"," ","D","e","c"," ","1","9","9","9",
              " ","2","3",":","5","9",":","5","9"," ","G","M","T">>
RetryAfterPool ==
    { [text |-> NoneCell, asks |-> 0],
      [text |-> <<>>, asks |-> 0],
      [text |-> <<"0">>, asks |-> 0],
      [text |-> <<"5">>, asks |-> 5],
      [text |-> <<"1","2","0">>, asks |-> 120],
      [text |-> HttpDate, asks |-> 30] }
StatusPool == {200, 304, 404, 500} \cup Throttled
ResponsePool ==
    { [status_code |-> st, retry_after |-> h.text, asks |-> h.asks] :
        st \in StatusPool, h \in RetryAfterPool }

\* lines 69-73: the delay after a throttled response at loop index attempt
Delay(resp, attempt) ==
    IF resp.retry_after # NoneCell /\ resp.retry_after # <<>>
         /\ isdigit(resp.retry_after)
    THEN int(resp.retry_after)
    ELSE Min(60, 2 ^ attempt)

InitRetry ==
    /\ ScriptIdle
    /\ call \in { [fn |-> "request_with_retry", max_retries |-> m, attempt |-> 0,
                    at |-> "request", requests |-> 0,
                    resp |-> [status_code |-> 0, retry_after |-> NoneCell, asks |-> 0],
                    delay |-> 0, outcome |-> "running"] : m \in 1..MaxRetriesArg }

InLoop ==
    /\ call.fn = "request_with_retry"
    /\ call.at = "request"
    /\ call.attempt < call.max_retries

\* lines 66-74: the response is a throttled one
RequestThrottled ==
    /\ InLoop
    /\ \E r \in ResponsePool :
          /\ r.status_code \in Throttled
          /\ call' = [call EXCEPT !.resp = r, !.requests = @ + 1,
                                   !.delay = Delay(r, call.attempt),
                                   !.at = "sleep"]
    /\ UNCHANGED <<rules, files, pc, fi, ri, ei, results, prov, report, fault>>

\* lines 75-76: time.sleep(delay); continue
Sleep ==
    /\ call.fn = "request_with_retry"
    /\ call.at = "sleep"
    /\ call' = [call EXCEPT !.attempt = @ + 1, !.at = "request"]
    /\ UNCHANGED <<rules, files, pc, fi, ri, ei, results, prov, report, fault>>

\* lines 77-78: any other response is returned, unless raise_for_status raises
RequestAnswered ==
    /\ InLoop
    /\ \E r \in ResponsePool :
          /\ r.status_code \notin Throttled
          /\ call' = [call EXCEPT !.resp = r, !.requests = @ + 1,
                                   !.at = "done",
                                   !.outcome = IF raise_for_status(r.status_code)
                                               THEN "HTTPError" ELSE "return"]
    /\ UNCHANGED <<rules, files, pc, fi, ri, ei, results, prov, report, fault>>

\* line 66: session.request itself raises (no connection, timeout)
RequestRaises ==
    /\ InLoop
    /\ call' = [call EXCEPT !.requests = @ + 1, !.at = "done",
                             !.outcome = "RequestException"]
    /\ UNCHANGED <<rules, files, pc, fi, ri, ei, results, prov, report, fault>>

\* a variant of Exhausted: the last throttled response is handed back
Exhausted_Returns ==
    /\ call.fn = "request_with_retry"
    /\ call.at = "request"
    /\ call.attempt >= call.max_retries
    /\ call' = [call EXCEPT !.at = "done", !.outcome = "return"]
    /\ UNCHANGED <<rules, files, pc, fi, ri, ei, results, prov, report, fault>>

\* lines 79-80: the loop is used up
Exhausted ==
    /\ call.fn = "request_with_retry"
    /\ call.at = "request"
    /\ call.attempt >= call.max_retries
    /\ call' = [call EXCEPT !.at = "done",
                             !.outcome = IF raise_for_status(call.resp.status_code)
                                         THEN "HTTPError" ELSE "return"]
    /\ UNCHANGED <<rules, files, pc, fi, ri, ei, results, prov, report, fault>>

NextRetry ==
    \/ RequestThrottled
    \/ Sleep
    \/ RequestAnswered
    \/ RequestRaises
    \/ Exhausted

\* The call is sequential code: a request answers or raises within its
\* timeout and a sleep ends, so a step that can be taken is taken.
SpecRetry == InitRetry /\ [][NextRetry]_vars /\ WF_vars(NextRetry)

\* ------------------------------------------------- vocabulary of the claims
Ended == pc \in {"done", "crashed"}
Parsed(i) == IsArxml(files[i]) /\ files[i].wellformed
Unparsable(i) == IsArxml(files[i]) /\ ~files[i].wellformed
\* file i has been left behind by the walk
Scanned(i) == i < fi
\* the rule loop has finished rule r on file i
PairDone(i, r) == i < fi \/ (i = fi /\ r < ri)
\* the rule loop has run the query of rule r on file i
PairQueried(i, r) == PairDone(i, r) \/ (i = fi /\ r = ri /\ pc \in {"elems", "crashed"})
QueryOf(i, r) == XPathQuery(files[i].tree, normalize_xpath(Get(rules[r], "xpath", <<>>)))
\* the rows of a file, by the path in their first cell
RowsOfFile(i) == { k \in DOMAIN results : results[k][1] = rel_path(files[i]) }
RowSeqOfFile(i) == SelectSeq(results, LAMBDA row : row[1] = rel_path(files[i]))
\* the rows appended for rule r on file i
RowsAt(i, r) == { k \in DOMAIN prov : prov[k][1] = i /\ prov[k][2] = r }
LexLess(a, b) ==
    \/ a[1] < b[1]
    \/ a[1] = b[1] /\ a[2] < b[2]
    \/ a[1] = b[1] /\ a[2] = b[2] /\ a[3] < b[3]

\* ----------------------------------------------------------------- claims

\* C1: after a run with a non-empty rule list, every (document, rule) pair has
\* at least one row: a row appended for that rule on that document, or the
\* single parse-failure row of a document that did not parse.
C1_EveryPairHasRow ==
    (Ended /\ rules # <<>>) =>
        \A i \in DOMAIN files : IsArxml(files[i]) =>
            \A r \in DOMAIN rules :
                \/ RowsAt(i, r) # {}
                \/ Unparsable(i) /\ Cardinality(RowsOfFile(i)) = 1

\* C2: with at least one rule loaded the run ends by writing the report,
\* whatever the documents are, also when every document fails to parse.
C2_RunWritesReport ==
    (rules # <<>> /\ pc \in {"done", "exit", "crashed"}) =>
        (pc = "done" /\ report.written)

\* C3: no fault raised while a rule is processed on a document ends the run.
C3_NoRuleFaultAborts ==
    ~(pc = "crashed" /\ ri > 0)

\* C4: a document that fails to parse has exactly one row, appended outside
\* the rule loop, whatever the number of rules; a document the walk has not
\* reached has none.
C4_ParseFailureOneRow ==
    \A i \in DOMAIN files : Unparsable(i) =>
        IF Scanned(i)
        THEN /\ Cardinality(RowsOfFile(i)) = 1
             /\ \A k \in RowsOfFile(i) : prov[k] = <<i, 0, 0>>
        ELSE RowsOfFile(i) = {}

C4_Witness ==
    /\ pc = "done"
    /\ Len(rules) >= 2
    /\ \E i, j \in DOMAIN files :
          i < j /\ Unparsable(i) /\ Parsed(j) /\ RowsOfFile(j) # {}

\* C5: the row of a document that fails to parse has status PARSE_ERROR and
\* rule id PARSE_ERROR, and carries the error message in its description or
\* its actual field.
C5_ParseRowFields ==
    \A k \in DOMAIN results : prov[k][2] = 0 =>
        /\ Cell(results[k], "Status") = PARSE_ERROR
        /\ Cell(results[k], "Rule ID") = PARSE_ERROR
        /\ files[prov[k][1]].err \in
               {Cell(results[k], "Description"), Cell(results[k], "Actual")}

\* C6: whatever the other documents are, the rows of a document that parses
\* are the rows the rule loop yields for that document on its own.
C6_RowsIndependentOfOtherFiles ==
    Ended => \A i \in DOMAIN files : Parsed(i) =>
                 RowSeqOfFile(i) = DocRows(files[i], rules, 1)

\* C7: the result list only grows at its end, and its rows are in the order
\* of the walk, then of the rule list, then of the matched elements (each row
\* comes strictly after the row before it, hence after every earlier row),
\* each row carrying the path of the document and the rule id it was appended
\* for: the rows already there are unchanged by every step, and every row a
\* step appends belongs to the document, rule and element the loops are at.
\* row k carries the path of the document, the id of the rule and the text of
\* the element it was appended for
C7_RowBelongs(k) ==
    /\ results[k][1] = rel_path(files[prov[k][1]])
    /\ prov[k][2] > 0 =>
          Cell(results[k], "Rule ID") = Get(rules[prov[k][2]], "rule_id", UNKNOWN)
    /\ prov[k][3] > 0 =>
          Cell(results[k], "Actual") =
              ActualOf(QueryOf(prov[k][1], prov[k][2]).elements[prov[k][3]])

C7_Ordered ==
    \A k \in DOMAIN prov : k > 1 => LexLess(prov[k - 1], prov[k])

\* C7: every step keeps the rows already in the result list, in place, and
\* leaves the list in (document, rule, element) order.
C7_AppendOnlyOrdered ==
    [][ /\ Len(results') >= Len(results)
        /\ SubSeq(results', 1, Len(results)) = results
        /\ SubSeq(prov', 1, Len(prov)) = prov
        /\ C7_Ordered'
        /\ \A k \in (Len(results) + 1)..Len(results') : C7_RowBelongs(k)' ]_vars

C7_Witness ==
    /\ pc = "done"
    /\ \E j, k \in DOMAIN prov :
          j < k /\ prov[j][1] = prov[k][1] /\ prov[j][2] = prov[k][2]
    /\ \E j, k \in DOMAIN prov :
          j < k /\ prov[j][1] = prov[k][1] /\ prov[j][2] < prov[k][2]
    /\ \E j, k \in DOMAIN prov : j < k /\ prov[j][1] < prov[k][1]

\* C8: a rule whose mandatory flag is true or absent, whose query has run on a
\* parsed document and matched nothing, has exactly one row for that document
\* and its status is FAIL.
NoMatchAt(i, r) ==
    /\ Parsed(i)
    /\ PairDone(i, r)
    /\ ~QueryOf(i, r).raised
    /\ QueryOf(i, r).elements = <<>>

C8_MandatoryNoMatchFails ==
    \A i \in DOMAIN files : \A r \in DOMAIN rules :
        (NoMatchAt(i, r) /\ Get(rules[r], "mandatory", TRUE)) =>
            /\ Cardinality(RowsAt(i, r)) = 1
            /\ \A k \in RowsAt(i, r) :
                  /\ results[k][1] = rel_path(files[i])
                  /\ Cell(results[k], "Status") = FAIL

C8_Witness ==
    \E i \in DOMAIN files : \E r, q \in DOMAIN rules :
        /\ NoMatchAt(i, r) /\ "mandatory" \notin DOMAIN rules[r]
        /\ NoMatchAt(i, q) /\ "mandatory" \in DOMAIN rules[q] /\ rules[q].mandatory

\* C9: a rule with mandatory false, whose query has run on a parsed document
\* and matched nothing, has exactly one row for that document and its status
\* is SKIP.
C9_OptionalNoMatchSkips ==
    \A i \in DOMAIN files : \A r \in DOMAIN rules :
        (NoMatchAt(i, r) /\ ~Get(rules[r], "mandatory", TRUE)) =>
            /\ Cardinality(RowsAt(i, r)) = 1
            /\ \A k \in RowsAt(i, r) :
                  /\ results[k][1] = rel_path(files[i])
                  /\ Cell(results[k], "Status") = SKIP

C9_Witness ==
    \E i \in DOMAIN files : \E r \in DOMAIN rules :
        /\ NoMatchAt(i, r)
        /\ "mandatory" \in DOMAIN rules[r] /\ ~rules[r].mandatory
        /\ pc = "done"

\* C10: when the query of a rule returns n >= 1 elements on a parsed document,
\* the run leaves exactly n rows for that pair, the e-th with the stripped
\* text of the e-th element as actual and with status PASS if
\* evaluate_condition returns true on it and FAIL otherwise.
C10_OneRowPerElement ==
    Ended => \A i \in DOMAIN files : \A r \in DOMAIN rules :
        (Parsed(i) /\ PairQueried(i, r) /\ ~QueryOf(i, r).raised
                   /\ QueryOf(i, r).elements # <<>>) =>
            LET els == QueryOf(i, r).elements
            IN  /\ Cardinality(RowsAt(i, r)) = Len(els)
                /\ \A e \in DOMAIN els : \E k \in RowsAt(i, r) :
                      /\ prov[k][3] = e
                      /\ Cell(results[k], "Actual") = ActualOf(els[e])
                      /\ Cell(results[k], "Status") =
                            (IF evaluate_condition(ActualOf(els[e]),
                                                   Get(rules[r], "expected", <<>>),
                                                   Get(rules[r], "condition", ""))
                                = "True"
                             THEN PASS ELSE FAIL)

\* C11 (as stated): when root.xpath rejects the query of a rule on a parsed
\* document, the pair has exactly one row, with status INVALID_QUERY and an
\* empty actual.
INVALID_QUERY == <<"I","N","V","A","L","I","D","_","Q","U","E","R","Y">>

QueryFailedAt(i, r) == Parsed(i) /\ PairDone(i, r) /\ QueryOf(i, r).raised

C11_QueryFailRow ==
    \A i \in DOMAIN files : \A r \in DOMAIN rules :
        QueryFailedAt(i, r) =>
            /\ Cardinality(RowsAt(i, r)) = 1
            /\ \A k \in RowsAt(i, r) :
                  /\ results[k][1] = rel_path(files[i])
                  /\ Cell(results[k], "Status") = INVALID_XPATH
                  /\ Cell(results[k], "Actual") = <<>>

\* the step the rule loop takes at a rule whose query is rejected: one row
\* more, and on to the next rule of the same document (to the next file after
\* the last rule)
C11_QueryFailStep ==
    (pc = "rules" /\ XPathQuery(root, xpath).raised) =>
        /\ Len(results') = Len(results) + 1
        /\ IF ri < Len(rules)
           THEN pc' = "rules" /\ fi' = fi /\ ri' = ri + 1
           ELSE pc' = "walk" /\ fi' = fi + 1

C12_RowShape ==
    \A k \in DOMAIN results :
        /\ Len(results[k]) = Len(Columns)
        /\ Cell(results[k], "Status") \in {PASS, FAIL, SKIP, PARSE_ERROR, INVALID_QUERY}

\* C13: with an empty rule list the run stops before the walk: no file is
\* looked at, no row is appended and no report is written.
C13_NoRulesNoRun ==
    rules = <<>> =>
        /\ pc \in {"check_rules", "exit"}
        /\ fi = 1
        /\ results = <<>>
        /\ ~report.written

C13_Witness ==
    /\ rules = <<>>
    /\ pc = "exit"
    /\ fault = "SystemExit"
    /\ \E i \in DOMAIN files : Parsed(i)
    /\ \E i \in DOMAIN files : Unparsable(i)

\* C20: a file the walk has passed has rows iff its name ends with ".arxml"
\* in any mix of upper and lower case; a file with another name has no row
\* and is never the file the rule loop runs on.
ExtCases == << {"."}, {"a","A"}, {"r","R"}, {"x","X"}, {"m","M"}, {"l","L"} >>
HasArxmlName(f) ==
    /\ Len(f.name) >= Len(ExtCases)
    /\ \A k \in DOMAIN ExtCases :
          f.name[Len(f.name) - Len(ExtCases) + k] \in ExtCases[k]

C20_OnlyArxmlFilesHaveRows ==
    /\ \A i \in DOMAIN files :
          /\ Scanned(i) => (RowsOfFile(i) # {} <=> HasArxmlName(files[i]))
          /\ ~HasArxmlName(files[i]) => RowsOfFile(i) = {}
    /\ pc \in {"rules", "elems"} => HasArxmlName(files[fi])

C20_Witness ==
    /\ pc = "done"
    /\ \E i, j \in DOMAIN files :
          /\ ~HasArxmlName(files[i]) /\ RowsOfFile(i) = {}
          /\ HasArxmlName(files[j]) /\ files[j].name # Lower(files[j].name)
          /\ RowsOfFile(j) # {}

\* C14: for a simplified absolute path, one or more non-empty segments each
\* preceded by "/" and no marker, normalize_xpath returns the query with one
\* step per segment, in order, each step a test of the local name against the
\* segment:  /*[local-name()='A']/*[local-name()='B']  for  /A/B  (a first
\* step written // is accepted too).
IsSimpleAbsPath(p) ==
    /\ p # <<>>
    /\ Head(p) = "/"
    /\ p[Len(p)] # "/"
    /\ ~Contains(p, <<"/","/">>)
    /\ ~Contains(p, LocalNameMarker)

StepOpen == <<"*","[">> \o LocalNameMarker \o <<"=","'">>
StepClose == <<"'","]">>
StepQuery(first, p) ==
    first \o StepOpen
          \o Replace(Tail(p), <<"/">>, StepClose \o <<"/">> \o StepOpen)
          \o StepClose

C14_NormalizeStepPerSegment ==
    (call.fn = "normalize_xpath" /\ call.step >= 1 /\ IsSimpleAbsPath(call.arg)) =>
        call.ret \in {StepQuery(<<"/">>, call.arg), StepQuery(<<"/","/">>, call.arg)}

\* C15: normalizing twice gives what normalizing once gives, for every
\* non-empty expression without the marker; an expression with the marker is
\* returned as it is.
C15_NormalizeIdempotent ==
    (call.fn = "normalize_xpath" /\ call.step = 2) =>
        /\ (call.arg # <<>> /\ ~Contains(call.arg, LocalNameMarker)) =>
               call.again = call.ret
        /\ Contains(call.arg, LocalNameMarker) => call.ret = call.arg

\* C16: normalize_xpath of "/" returns no expression with an empty step, a
\* test of the local name against the empty name.
EmptyStep == LocalNameMarker \o <<"=","'","'">>

C16_RootOnlyNoEmptyStep ==
    (call.fn = "normalize_xpath" /\ call.step >= 1 /\ call.arg = <<"/">>) =>
        ~Contains(call.ret, EmptyStep)

\* C17: for a condition that is none of EQUALS, NOT_EQUALS, EXISTS, IN, REGEX
\* (the empty string of a rule without condition included) evaluate_condition
\* returns False whatever actual and expected are, it does not raise, and the
\* status made of it is never PASS.
C17_UnknownConditionFalse ==
    (call.fn = "evaluate_condition" /\ call.condition \notin KnownConditions) =>
        /\ call.step >= 1 => (call.ret = "False" /\ call.status = FAIL)
        /\ call.step = 2 => call.ret_other = "False"

C17_Witness ==
    /\ call.fn = "evaluate_condition"
    /\ call.step = 2
    /\ call.condition = ""
    /\ call.actual = <<"B">>
    /\ call.expected = <<"B">>
    /\ call.other = <<"*">>

\* C18: with condition EXISTS the result is the same for any two expected
\* values, and it is True iff actual is neither None nor the empty string.
C18_ExistsIgnoresExpected ==
    (call.fn = "evaluate_condition" /\ call.condition = "EXISTS" /\ call.step = 2) =>
        /\ call.ret = call.ret_other
        /\ call.ret \in {"True", "False"}
        /\ call.ret = "True" <=> call.actual \notin {NoneCell, <<>>}

C18_Witness ==
    /\ call.fn = "evaluate_condition"
    /\ call.condition = "EXISTS"
    /\ call.step = 2
    /\ call.expected # call.other
    /\ call.actual = call.expected
    /\ call.ret = "True"

\* C19: with condition IN the result is True iff actual is one of the elements
\* of expected: the stretches between the commas, each without the white
\* space at its two ends.  Stated on the positions of expected: a stretch
\* i..j bounded by commas or by the ends and holding no comma, and in it a
\* core u..v equal to actual, with white space only before and after it and
\* none at its first and last character.
IsStretch(e, i, j) ==
    /\ i = 1 \/ e[i - 1] = ","
    /\ j = Len(e) \/ e[j + 1] = ","
    /\ \A k \in i..j : e[k] # ","

IsCore(e, i, j, u, v) ==
    /\ \A k \in i..(u - 1) : e[k] \in Whitespace
    /\ \A k \in (v + 1)..j : e[k] \in Whitespace
    /\ u <= v => (e[u] \notin Whitespace /\ e[v] \notin Whitespace)

IsTrimmedElement(a, e) ==
    \E i \in 1..(Len(e) + 1) : \E j \in (i - 1)..Len(e) :
        /\ IsStretch(e, i, j)
        /\ \E u \in i..(j + 1) : \E v \in (u - 1)..j :
              IsCore(e, i, j, u, v) /\ SubSeq(e, u, v) = a

C19_InMatchesTrimmedElement ==
    (call.fn = "evaluate_condition" /\ call.condition = "IN") =>
        /\ call.step >= 1 =>
              /\ call.ret \in {"True", "False"}
              /\ call.ret = "True" <=> IsTrimmedElement(call.actual, call.expected)
        /\ call.step = 2 =>
              (call.ret_other = "True" <=> IsTrimmedElement(call.actual, call.other))

C19_Witness ==
    /\ call.fn = "evaluate_condition"
    /\ call.condition = "IN"
    /\ call.step >= 1
    /\ call.expected = <<"A",","," ","B",","," ","C">>
    /\ call.actual = <<"B">>
    /\ call.ret = "True"

\* C21: for one filesystem state, two runs visit the documents in the same
\* order, the sorted order of the directory entries, and so produce
\* identical row sequences.
C21_TwoRunsSameRows ==
    (call.fn = "os.walk" /\ call.step = 2) =>
        /\ SortedWalk(call.first)
        /\ SortedWalk(call.second)
        /\ call.first = call.second
        /\ call.rows_first = call.rows_second

\* C22: request_with_retry ends after at most max_retries HTTP attempts.  It
\* asks again only after a 429, 503 or 504; the first response that is neither
\* throttled nor an error is returned; any other error status raises at once;
\* max_retries throttled responses in a row end in an HTTP error; no throttled
\* or error response is ever returned.
C22_Safe ==
    call.fn = "request_with_retry" =>
        LET st == call.resp.status_code
        IN  /\ call.requests <= call.max_retries
            /\ call.at = "sleep" => st \in Throttled
            /\ (call.at = "request" /\ call.requests > 0) =>
                  (st \in Throttled /\ call.requests = call.attempt)
            /\ call.outcome = "return" =>
                  (st \notin Throttled /\ ~raise_for_status(st) /\ call.requests > 0)
            /\ call.outcome = "HTTPError" =>
                  \/ st \notin Throttled /\ raise_for_status(st)
                  \/ st \in Throttled /\ call.requests = call.max_retries
            /\ (call.outcome = "running") = (call.at # "done")
            /\ call.outcome \in {"running", "return", "HTTPError", "RequestException"}
C22_RetryTerminates ==
    /\ []C22_Safe
    /\ <>(call.fn = "request_with_retry" => call.outcome # "running")

C22_Witness ==
    /\ call.fn = "request_with_retry"
    /\ call.max_retries = 6
    /\ call.requests = 6
    /\ call.resp.status_code = 503
    /\ call.outcome = "HTTPError"

\* C23: after a throttled response that carries a Retry-After header the wait
\* is what the header asks for; with no Retry-After the wait after attempt k
\* (counted from 0) is min(60, 2^k) seconds.
C23_WaitIsRetryAfterOrBackoff ==
    (call.fn = "request_with_retry" /\ call.at = "sleep") =>
        IF call.resp.retry_after # NoneCell /\ call.resp.retry_after # <<>>
        THEN call.delay = call.resp.asks
        ELSE call.delay = Min(60, 2 ^ call.attempt)

====
